---- MODULE Spec2Model ----
(***************************************************************************)
(* Model of the habit tracker in src/src/App.jsx: six category lists kept  *)
(* in React state and mirrored to localStorage (useLocalStorage), the      *)
(* TrackerPage handlers (add, delete, toggle, rename, default items) and   *)
(* the export / import of a JSON snapshot.                                 *)
(*                                                                         *)
(* Conventions.                                                            *)
(*  - A text is a sequence of symbols; " " and "\t" are whitespace.        *)
(*  - Date.now() is the integer `clock`.  An id is kept in units of        *)
(*    1/RandSteps ms, so Date.now() is clock * RandSteps and               *)
(*    Date.now() + Math.random() is clock * RandSteps + r, r < RandSteps.  *)
(*  - new Date().toDateString() is the day number clock \div MsPerDay.     *)
(*  - A JSON value in memory is [kind, elems]; elems is the list of items  *)
(*    when kind = "array" and empty otherwise.                             *)
(***************************************************************************)
EXTENDS Integers, Sequences, FiniteSets, TLC

VARIABLES
    clock,        \* Date.now()
    activeTab,    \* App: activeTab
    stored,       \* useLocalStorage: storedValue of each category (React state)
    items,        \* the `items` prop the mounted handlers closed over (last render)
    today,        \* TrackerPage: `today`, computed when the page rendered
    newItem,      \* TrackerPage: newItem
    editingItem,  \* TrackerPage: editingItem, <<>> for null and <<id>> for an id
    editValue,    \* TrackerPage: editValue
    persisted,    \* window.localStorage: <<>> (no entry) or <<text>> per category
    crashed,      \* a render threw (items.map on a non-array): the tree is unmounted
    reading,      \* FileReader: <<>> or <<text>> of the file being read
    exported,     \* the last downloaded backup: <<>> or <<text>>
    alert,        \* the dialog reader.onload raised: "none", "success" or "error"
    lastToggle,   \* history: <<>> or <<the last toggle>>, while nothing else changed a list
    restored,     \* history: the last import read the last export and changed a list
    snapshot,     \* history: `stored` when the last export ran
    writeFailures,\* history: number of localStorage writes that threw
    nOps,         \* history: number of list operations and imports started
    quota         \* environment: whether localStorage.setItem may throw in this run

vars == <<clock, activeTab, stored, items, today, newItem, editingItem, editValue,
          persisted, crashed, reading, exported, alert, lastToggle, restored,
          snapshot, writeFailures, nOps, quota>>

-----------------------------------------------------------------------------
(* Bounds of the model *)

MaxClock == 2
MsPerDay == 2
RandSteps == 2
MaxLen == 2
MaxDefaults == 2
MaxTab == 2
MaxWriteFailures == 1
MaxOps == 2

-----------------------------------------------------------------------------
(* Program constants *)

CategoryOrder == <<"skincare", "haircare", "supplements", "study", "bodycare", "exercise">>

Categories == {CategoryOrder[i] : i \in 1..Len(CategoryOrder)}

defaultItems ==
    [c \in Categories |->
        CASE c = "skincare" ->
               << <<"Morning cleanser">>, <<"Vitamin C serum">>, <<"Moisturizer with SPF">>,
                  <<"Evening cleanser">>, <<"Retinol (3x/week)">>, <<"Night moisturizer">> >>
          [] c = "haircare" ->
               << <<"Shampoo">>, <<"Conditioner">>, <<"Hair oil treatment">>,
                  <<"Scalp massage">>, <<"Protective styling">>, <<"Heat protectant">> >>
          [] c = "supplements" ->
               << <<"Multivitamin">>, <<"Vitamin D">>, <<"Omega-3">>,
                  <<"Probiotics">>, <<"Vitamin C">>, <<"B-Complex">> >>
          [] c = "study" ->
               << <<"Read for 30 minutes">>, <<"Review notes">>, <<"Practice problems">>,
                  <<"Flashcard review">>, <<"Journal writing">>, <<"Research topic">> >>
          [] c = "bodycare" ->
               << <<"Body moisturizer">>, <<"Exfoliate">>, <<"Nail care">>,
                  <<"Foot care">>, <<"Body scrub">>, <<"Self-massage">> >>
          [] OTHER ->
               << <<"Cardio workout">>, <<"Strength training">>, <<"Stretching">>,
                  <<"Walk 10k steps">>, <<"Yoga">>, <<"Core exercises">> >>]

-----------------------------------------------------------------------------
(* Text helpers *)

Whitespace == {" ", "\t"}

RECURSIVE trimStart(_)
trimStart(s) ==
    IF s = <<>> THEN s
    ELSE IF Head(s) \in Whitespace THEN trimStart(Tail(s)) ELSE s

RECURSIVE trimEnd(_)
trimEnd(s) ==
    IF s = <<>> THEN s
    ELSE IF s[Len(s)] \in Whitespace THEN trimEnd(SubSeq(s, 1, Len(s) - 1)) ELSE s

\* String.prototype.trim
trim(s) == trimEnd(trimStart(s))

\* new Date().toDateString(): the local calendar day of the instant t
toDateString(t) == t \div MsPerDay

\* new Date().toISOString(): one text per instant
toISOString(t) == t

-----------------------------------------------------------------------------
(* JSON values *)

EmptyMap == [k \in {} |-> TRUE]

Arr(s) == [kind |-> "array", elems |-> s]

Scalar(k) == [kind |-> k, elems |-> <<>>]

Undefined == Scalar("undefined")

\* a truthiness test under which an empty list is falsy
IsTruthyNonEmpty(v) ==
    \/ v.kind \in {"string", "number", "true", "object"}
    \/ v.kind = "array" /\ v.elems # <<>>

\* JavaScript truthiness, as tested by `if (data.skincare)`
IsTruthy(v) == v.kind \in {"array", "string", "number", "true", "object"}

\* Array.isArray
IsArray(v) == v.kind = "array"

Min(S) == CHOOSE x \in S : \A y \in S : x <= y

RECURSIVE entriesOf(_, _)
\* the key/value pairs of an object, as JSON.stringify writes them
entriesOf(m, keys) ==
    IF keys = {} THEN <<>>
    ELSE LET k == Min(keys) IN <<[key |-> k, value |-> m[k]]>> \o entriesOf(m, keys \ {k})

\* the object JSON.parse builds from key/value pairs
objectOf(pairs) ==
    [k \in {pairs[i].key : i \in 1..Len(pairs)} |->
        LET last == CHOOSE i \in 1..Len(pairs) :
                        /\ pairs[i].key = k
                        /\ \A j \in 1..Len(pairs) : pairs[j].key = k => j <= i
        IN pairs[last].value]

stringifyItem(it) ==
    [id |-> it.id, name |-> it.name,
     completed |-> entriesOf(it.completed, DOMAIN it.completed),
     createdAt |-> it.createdAt]

parseItem(t) ==
    [id |-> t.id, name |-> t.name, completed |-> objectOf(t.completed),
     createdAt |-> t.createdAt]

\* JSON.stringify of one category value
JSONstringify(v) ==
    [kind |-> v.kind, elems |-> [i \in 1..Len(v.elems) |-> stringifyItem(v.elems[i])]]

\* JSON.parse of the text of one category value
JSONparse(t) ==
    [kind |-> t.kind, elems |-> [i \in 1..Len(t.elems) |-> parseItem(t.elems[i])]]

-----------------------------------------------------------------------------
(* Snapshot documents *)

NoFields == [c \in Categories |-> Undefined]

\* JSON.stringify(data, null, 2) in exportData, for data = {skincare: ..., exportDate}
exportData(data, now) ==
    [valid |-> TRUE, top |-> "object",
     fields |-> [c \in Categories |-> JSONstringify(data[c])],
     exportDate |-> toISOString(now)]

\* JSON.parse(e.target.result) throws a SyntaxError on text that is not JSON
parseThrows(text) == ~text.valid

\* JSON.parse(e.target.result), for text that is JSON
parseDocument(text) ==
    [top |-> text.top, fields |-> [c \in Categories |-> JSONparse(text.fields[c])]]

\* reading a property of null throws a TypeError
getThrows(data) == data.top = "null"

\* data.skincare, data.haircare, ...: undefined unless data is an object holding the key
get(data, c) == IF data.top = "object" THEN data.fields[c] ELSE Undefined

-----------------------------------------------------------------------------
(* useLocalStorage *)

\* the initial storedValue: getItem(key) is null, so initialValue
initialValue == Arr(<<>>)

\* a setValue without the try/catch: the exception of setItem escapes
setValueNoCatch(cur, curStore, value, ok) ==
    [state |-> value,
     store |-> IF ok THEN <<JSONstringify(value)>> ELSE curStore,
     threw |-> ~ok]

\* a setValue that writes the store before it sets the state
setValueWriteFirst(cur, curStore, value, ok) ==
    [state |-> IF ok THEN value ELSE cur,
     store |-> IF ok THEN <<JSONstringify(value)>> ELSE curStore,
     threw |-> FALSE]

\* setValue(value): setStoredValue(value), then localStorage.setItem, whose
\* exception (ok = FALSE) is caught and logged.  cur and curStore are the state
\* and the stored entry before the call.
setValue(cur, curStore, value, ok) ==
    [state |-> value,
     store |-> IF ok THEN <<JSONstringify(value)>> ELSE curStore,
     threw |-> FALSE]

\* the outcomes localStorage.setItem may have in this step
WriteOutcomes ==
    IF quota /\ writeFailures < MaxWriteFailures THEN BOOLEAN ELSE {TRUE}

-----------------------------------------------------------------------------
(* TrackerPage: the functions the handlers apply to `items` *)

newTrackedItem(id, name, now) ==
    [id |-> id, name |-> name, completed |-> EmptyMap, createdAt |-> toISOString(now)]

\* an addItem that stores the name as typed
addItemNoTrim(seq, text, now) ==
    IF trim(text) # <<>>
    THEN Append(seq, newTrackedItem(now * RandSteps, text, now))
    ELSE seq

\* addItem: [...items, item] when newItem.trim() is not empty
addItem(seq, text, now) ==
    IF trim(text) # <<>>
    THEN Append(seq, newTrackedItem(now * RandSteps, trim(text), now))
    ELSE seq

\* deleteItem: items.filter(item => item.id !== id)
deleteItem(seq, id) == SelectSeq(seq, LAMBDA it : it.id # id)

\* !!m[k]
Truthy(m, k) == k \in DOMAIN m /\ m[k]

\* newCompleted = {...completed}; newCompleted[day] = !newCompleted[day]
flipDay(m, day) ==
    [k \in DOMAIN m \cup {day} |-> IF k = day THEN ~Truthy(m, day) ELSE m[k]]

\* toggleComplete: items.map(...) flipping completed[today] of the item with that id
toggleComplete(seq, id, day) ==
    [i \in 1..Len(seq) |->
        IF seq[i].id = id
        THEN [seq[i] EXCEPT !.completed = flipDay(seq[i].completed, day)]
        ELSE seq[i]]

\* saveEdit: items.map(...) replacing the name of the item being edited
saveEdit(seq, id, text) ==
    IF trim(text) # <<>>
    THEN [i \in 1..Len(seq) |->
            IF seq[i].id = id THEN [seq[i] EXCEPT !.name = trim(text)] ELSE seq[i]]
    ELSE seq

\* addDefaultItems: [...items, ...defaultItems.map(name => ({id: Date.now() + Math.random(), ...}))]
addDefaultItems(seq, names, rands, now) ==
    seq \o [i \in 1..Len(names) |->
                newTrackedItem(now * RandSteps + rands[i], names[i], now)]

idsOf(seq) == {seq[i].id : i \in 1..Len(seq)}

-----------------------------------------------------------------------------
(* Rendering *)

\* A render of the page for tab `tab` from the state st: the handlers close over
\* the new `items` and over `today`; items.map throws when the value is no array.
Rerender(st, tab) ==
    /\ items' = st
    /\ today' = toDateString(clock)
    /\ crashed' = ~IsArray(st[tab])

\* the handlers keep what they closed over before the file was read
CommitSkipped(st, tab) == UNCHANGED <<items, today, crashed>>

\* The render that follows the state updates made in the FileReader callback:
\* it completes before the next user action is processed.
CommitAfterLoad(st, tab) == Rerender(st, tab)

-----------------------------------------------------------------------------
(* Initial state *)

\* an item a previous session left in the store
EarlierItem ==
    [id |-> 0 - RandSteps, name |-> <<"z">>, completed |-> EmptyMap,
     createdAt |-> toISOString(0 - 1)]

\* a stored text that is not JSON
CorruptText == Scalar("corrupt")

\* localStorage when the page loads: empty, or holding what earlier sessions left:
\* a list under one key and a text that is not JSON under another
InitialStores ==
    { [c \in Categories |-> <<>>],
      [c \in Categories |->
          CASE c = "skincare" -> <<JSONstringify(Arr(<<EarlierItem>>))>>
            [] c = "haircare" -> <<CorruptText>>
            [] OTHER -> <<>>] }

\* useState(() => { try { item = getItem(key); return item ? JSON.parse(item) : initialValue }
\*                  catch { return initialValue } })
loadValue(entry) ==
    IF entry # <<>> /\ entry[1] # CorruptText THEN JSONparse(entry[1]) ELSE initialValue

InitWith(q) ==
    /\ clock = 0
    /\ activeTab = "skincare"
    /\ persisted \in InitialStores
    /\ stored = [c \in Categories |-> loadValue(persisted[c])]
    /\ items = stored
    /\ today = toDateString(0)
    /\ newItem = <<>>
    /\ editingItem = <<>>
    /\ editValue = <<>>
    /\ crashed = FALSE
    /\ reading = <<>>
    /\ exported = <<>>
    /\ alert = "none"
    /\ lastToggle = <<>>
    /\ restored = FALSE
    /\ snapshot = stored
    /\ writeFailures = 0
    /\ nOps = 0
    /\ quota = q

Init == InitWith(TRUE)

InitExport == InitWith(FALSE)

-----------------------------------------------------------------------------
(* Inputs: what the user types and the files the user picks *)

NewItemTexts == { <<" ">>, <<" ", "a", "\t">> }

EditTexts == { <<"b", " ">> }

ImportedItem ==
    [id |-> 9, name |-> <<"x">>, completed |-> <<[key |-> 0, value |-> TRUE]>>,
     createdAt |-> toISOString(0)]

TextArr(s) == [kind |-> "array", elems |-> s]

NotJsonText == [valid |-> FALSE, top |-> "object", fields |-> NoFields, exportDate |-> 0]

DocText(top, fields) == [valid |-> TRUE, top |-> top, fields |-> fields, exportDate |-> 0]

With(f, c, v) == [f EXCEPT ![c] = v]

ImportTexts ==
    { NotJsonText,
      DocText("null", NoFields),
      DocText("object", With(NoFields, "skincare", TextArr(<<ImportedItem>>))),
      DocText("object",
              With(With(With(With(With(NoFields, "skincare", TextArr(<<>>)),
                                       "haircare", Scalar("string")),
                                  "supplements", Scalar("zero")),
                             "study", TextArr(<<ImportedItem>>)),
                        "bodycare", Scalar("object"))) }

-----------------------------------------------------------------------------
(* handleImport: reader.onload *)

RECURSIVE importFrom(_, _, _, _, _)
\* the statements `if (data.<c>) set<C>Items(data.<c>)` from the i-th on; a
\* statement that throws skips the rest of the try block
importFrom(i, data, st, ps, fails) ==
    IF i > Len(CategoryOrder) THEN [stored |-> st, persisted |-> ps, threw |-> FALSE]
    ELSE LET c == CategoryOrder[i]
             v == get(data, c)
         IN IF IsTruthy(v)
            THEN LET r  == setValue(st[c], ps[c], v, c \notin fails)
                     s2 == [st EXCEPT ![c] = r.state]
                     p2 == [ps EXCEPT ![c] = r.store]
                 IN IF r.threw
                    THEN [stored |-> s2, persisted |-> p2, threw |-> TRUE]
                    ELSE importFrom(i + 1, data, s2, p2, fails)
            ELSE importFrom(i + 1, data, st, ps, fails)

\* the body of reader.onload: try { parse; set...; alert(success) } catch { alert(error) }
onload(text, st, ps, fails) ==
    IF parseThrows(text) THEN [stored |-> st, persisted |-> ps, alert |-> "error"]
    ELSE LET data == parseDocument(text)
         IN IF getThrows(data) THEN [stored |-> st, persisted |-> ps, alert |-> "error"]
            ELSE LET r == importFrom(1, data, st, ps, fails)
                 IN [stored |-> r.stored, persisted |-> r.persisted,
                     alert |-> IF r.threw THEN "error" ELSE "success"]

\* the categories reader.onload writes for this text
writtenKeys(text) ==
    IF parseThrows(text) \/ getThrows(parseDocument(text)) THEN {}
    ELSE {c \in Categories : IsTruthy(get(parseDocument(text), c))}

-----------------------------------------------------------------------------
(* Actions *)

page == <<newItem, editingItem, editValue>>

\* the clock advances
Tick ==
    /\ clock < MaxClock
    /\ clock' = clock + 1
    /\ UNCHANGED <<activeTab, stored, items, today, page, persisted, crashed, reading,
                   exported, alert, lastToggle, restored, snapshot, writeFailures,
                   nOps, quota>>

\* onChange of the new-item input: setNewItem, and the page renders again
TypeNewItem(text) ==
    /\ ~crashed
    /\ newItem' = text
    /\ today' = toDateString(clock)
    /\ alert' = "none"
    /\ restored' = FALSE
    /\ UNCHANGED <<clock, activeTab, stored, items, editingItem, editValue, persisted,
                   crashed, reading, exported, lastToggle, snapshot, writeFailures, nOps, quota>>

\* setItems(value) of the active tab with the write outcome ok, then the render
SetItems(c, value, ok) ==
    LET r == setValue(stored[c], persisted[c], value, ok)
    IN /\ stored' = [stored EXCEPT ![c] = r.state]
       /\ persisted' = [persisted EXCEPT ![c] = r.store]
       /\ writeFailures' = IF ok THEN writeFailures ELSE writeFailures + 1
       /\ nOps < MaxOps
       /\ nOps' = nOps + 1
       /\ Rerender(stored', c)

\* the add button, or Enter in the new-item input
AddItem ==
    /\ ~crashed
    /\ LET c == activeTab
           seq == items[c].elems
       IN IF trim(newItem) # <<>>
          THEN /\ Len(seq) < MaxLen
               /\ \E ok \in WriteOutcomes :
                     SetItems(c, Arr(addItem(seq, newItem, clock)), ok)
               /\ newItem' = <<>>
               /\ lastToggle' = <<>>
               /\ alert' = "none"
               /\ restored' = FALSE
               /\ UNCHANGED <<clock, activeTab, editingItem, editValue, reading,
                              exported, snapshot, quota>>
          ELSE /\ alert' = "none"
               /\ restored' = FALSE
               /\ UNCHANGED <<clock, activeTab, stored, items, today, page, persisted,
                              crashed, reading, exported, lastToggle, snapshot,
                              writeFailures, nOps, quota>>

\* the delete button of the i-th rendered item, hidden while it is being edited
DeleteItem(i) ==
    /\ ~crashed
    /\ LET c == activeTab
           seq == items[c].elems
       IN /\ i \in 1..Len(seq)
          /\ <<seq[i].id>> # editingItem
          /\ \E ok \in WriteOutcomes :
                SetItems(c, Arr(deleteItem(seq, seq[i].id)), ok)
    /\ lastToggle' = <<>>
    /\ alert' = "none"
    /\ restored' = FALSE
    /\ UNCHANGED <<clock, activeTab, page, reading, exported, snapshot, quota>>

\* the checkbox of the i-th rendered item
ToggleComplete(i) ==
    /\ ~crashed
    /\ LET c == activeTab
           seq == items[c].elems
       IN /\ i \in 1..Len(seq)
          /\ \E ok \in WriteOutcomes :
                SetItems(c, Arr(toggleComplete(seq, seq[i].id, today)), ok)
          /\ lastToggle' = <<[cat |-> c, id |-> seq[i].id, key |-> today,
                              day |-> toDateString(clock), before |-> stored[c].elems]>>
    /\ alert' = "none"
    /\ restored' = FALSE
    /\ UNCHANGED <<clock, activeTab, page, reading, exported, snapshot, quota>>

\* the edit button of the i-th rendered item, hidden while it is being edited
StartEditing(i) ==
    /\ ~crashed
    /\ LET seq == items[activeTab].elems
       IN /\ i \in 1..Len(seq)
          /\ <<seq[i].id>> # editingItem
          /\ editingItem' = <<seq[i].id>>
          /\ editValue' = seq[i].name
    /\ today' = toDateString(clock)
    /\ alert' = "none"
    /\ restored' = FALSE
    /\ UNCHANGED <<clock, activeTab, stored, items, newItem, persisted, crashed, reading,
                   exported, lastToggle, snapshot, writeFailures, nOps, quota>>

\* onChange of the edit input, shown for the item being edited
TypeEdit(text) ==
    /\ ~crashed
    /\ editingItem \in {<<id>> : id \in idsOf(items[activeTab].elems)}
    /\ editValue' = text
    /\ today' = toDateString(clock)
    /\ alert' = "none"
    /\ restored' = FALSE
    /\ UNCHANGED <<clock, activeTab, stored, items, newItem, editingItem, persisted,
                   crashed, reading, exported, lastToggle, snapshot, writeFailures, nOps, quota>>

\* the save button, or Enter in the edit input
SaveEdit ==
    /\ ~crashed
    /\ LET c == activeTab
           seq == items[c].elems
       IN /\ editingItem \in {<<id>> : id \in idsOf(seq)}
          /\ IF trim(editValue) # <<>>
             THEN /\ \E ok \in WriteOutcomes :
                        SetItems(c, Arr(saveEdit(seq, editingItem[1], editValue)), ok)
                  /\ lastToggle' = <<>>
             ELSE /\ today' = toDateString(clock)
                  /\ UNCHANGED <<stored, items, persisted, crashed, writeFailures,
                                 lastToggle, nOps, quota>>
    /\ editingItem' = <<>>
    /\ editValue' = <<>>
    /\ alert' = "none"
    /\ restored' = FALSE
    /\ UNCHANGED <<clock, activeTab, newItem, reading, exported, snapshot, quota>>

CancelEdit ==
    /\ ~crashed
    /\ editingItem \in {<<id>> : id \in idsOf(items[activeTab].elems)}
    /\ editingItem' = <<>>
    /\ editValue' = <<>>
    /\ today' = toDateString(clock)
    /\ alert' = "none"
    /\ restored' = FALSE
    /\ UNCHANGED <<clock, activeTab, stored, items, newItem, persisted, crashed, reading,
                   exported, lastToggle, snapshot, writeFailures, nOps, quota>>

\* the defaults the model seeds: the first MaxDefaults names of the tab's list
seedNames(c) ==
    SubSeq(defaultItems[c], 1,
           IF MaxDefaults < Len(defaultItems[c]) THEN MaxDefaults ELSE Len(defaultItems[c]))

\* the "Add Default Items" button, rendered while the list is empty
AddDefaultItems ==
    /\ ~crashed
    /\ LET c == activeTab
           seq == items[c].elems
           names == seedNames(c)
       IN /\ Len(defaultItems[c]) > 0
          /\ Len(seq) = 0
          /\ \E rands \in [1..Len(names) -> 0..(RandSteps - 1)] :
                \E ok \in WriteOutcomes :
                   SetItems(c, Arr(addDefaultItems(seq, names, rands, clock)), ok)
    /\ lastToggle' = <<>>
    /\ alert' = "none"
    /\ restored' = FALSE
    /\ UNCHANGED <<clock, activeTab, page, reading, exported, snapshot, quota>>

\* a sidebar button: setActiveTab, the other tab's page mounts with fresh state
SelectTab(t) ==
    /\ ~crashed
    /\ t # activeTab
    /\ activeTab' = t
    /\ newItem' = <<>>
    /\ editingItem' = <<>>
    /\ editValue' = <<>>
    /\ Rerender(stored, t)
    /\ alert' = "none"
    /\ restored' = FALSE
    /\ UNCHANGED <<clock, stored, persisted, reading, exported, lastToggle, snapshot,
                   writeFailures, nOps, quota>>

\* the Export button: the snapshot of the six lists is serialized and downloaded
HandleExport ==
    /\ ~crashed
    /\ exported' = <<exportData(items, clock)>>
    /\ snapshot' = stored
    /\ alert' = "none"
    /\ restored' = FALSE
    /\ UNCHANGED <<clock, activeTab, stored, items, today, page, persisted, crashed,
                   reading, lastToggle, writeFailures, nOps, quota>>

\* the file input: a file was picked and reader.readAsText(file) started
HandleImport(text) ==
    /\ ~crashed
    /\ reading = <<>>
    /\ nOps < MaxOps
    /\ nOps' = nOps + 1
    /\ reading' = <<text>>
    /\ alert' = "none"
    /\ restored' = FALSE
    /\ UNCHANGED <<clock, activeTab, stored, items, today, page, persisted, crashed,
                   exported, lastToggle, snapshot, writeFailures, quota>>

\* the file was read: reader.onload runs
ReaderOnload ==
    /\ ~crashed
    /\ reading # <<>>
    /\ \E fails \in (IF quota THEN SUBSET writtenKeys(reading[1]) ELSE {{}}) :
          /\ writeFailures + Cardinality(fails) <= MaxWriteFailures
          /\ LET r == onload(reading[1], stored, persisted, fails)
             IN /\ stored' = r.stored
                /\ persisted' = r.persisted
                /\ alert' = r.alert
                /\ restored' = (exported = reading /\ r.stored # stored)
          /\ writeFailures' = writeFailures + Cardinality(fails)
    /\ CommitAfterLoad(stored', activeTab)
    /\ reading' = <<>>
    /\ lastToggle' = <<>>
    /\ UNCHANGED <<clock, activeTab, page, exported, snapshot, nOps, quota>>

UserStep ==
    \/ Tick
    \/ \E text \in NewItemTexts : TypeNewItem(text)
    \/ AddItem
    \/ \E i \in 1..MaxLen : DeleteItem(i)
    \/ \E i \in 1..MaxLen : ToggleComplete(i)
    \/ \E i \in 1..MaxLen : StartEditing(i)
    \/ \E text \in EditTexts : TypeEdit(text)
    \/ SaveEdit
    \/ CancelEdit
    \/ AddDefaultItems
    \/ \E k \in 1..MaxTab : SelectTab(CategoryOrder[k])

Next ==
    \/ UserStep
    \/ \E text \in ImportTexts : HandleImport(text)
    \/ ReaderOnload

Spec == Init /\ [][Next]_vars

NextExport ==
    \/ Next
    \/ HandleExport
    \/ \E k \in 1..Len(exported) : HandleImport(exported[k])

SpecExport == InitExport /\ [][NextExport]_vars

-----------------------------------------------------------------------------
(* Properties *)

Blank(text) == \A i \in 1..Len(text) : text[i] \in Whitespace

\* name is text without its leading and trailing whitespace
IsTrimOf(name, text) ==
    /\ name # <<>> => name[1] \notin Whitespace /\ name[Len(name)] \notin Whitespace
    /\ \E a \in 0..Len(text) :
          /\ a + Len(name) <= Len(text)
          /\ SubSeq(text, a + 1, a + Len(name)) = name
          /\ \A i \in 1..Len(text) :
                (i <= a \/ i > a + Len(name)) => text[i] \in Whitespace

\* the store entry e holds exactly the in-memory value v
MirrorsOf(e, v) == e # <<>> /\ e[1] # CorruptText /\ JSONparse(e[1]) = v

\* the step applied its operation to the current list of the category
StepApplied ==
    LET c == activeTab
        old == stored[c].elems
        new == stored'[c].elems
    IN /\ (AddItem /\ ~Blank(newItem)) =>
             stored'[c] = Arr(addItem(old, newItem, clock))
       /\ \A i \in 1..MaxLen : DeleteItem(i) =>
             stored'[c] = Arr(deleteItem(old, items[c].elems[i].id))
       /\ \A i \in 1..MaxLen : ToggleComplete(i) =>
             stored'[c] = Arr(toggleComplete(old, items[c].elems[i].id, today))
       /\ (SaveEdit /\ ~Blank(editValue)) =>
             stored'[c] = Arr(saveEdit(old, editingItem[1], editValue))
       /\ AddDefaultItems =>
             /\ Len(new) = Len(old) + Len(seedNames(c))
             /\ SubSeq(new, 1, Len(old)) = old
             /\ \A k \in 1..Len(seedNames(c)) :
                   /\ new[Len(old) + k].name = seedNames(c)[k]
                   /\ new[Len(old) + k].completed = EmptyMap
       /\ (ReaderOnload /\ alert' = "success") =>
             \A d \in Categories :
                LET v == get(parseDocument(reading[1]), d)
                IN IF IsTruthy(v) THEN stored'[d] = v ELSE stored'[d] = stored[d]
       /\ (AddItem \/ SaveEdit \/ AddDefaultItems
             \/ \E i \in 1..MaxLen : DeleteItem(i) \/ ToggleComplete(i)) =>
             \A d \in Categories \ {c} : stored'[d] = stored[d]

\* C1: in every reachable state the ids within each category's list are pairwise
\* distinct (no id is handed out twice, whatever the clock does between operations).
C1_UniqueIds ==
    \A c \in Categories :
       \A i, j \in 1..Len(stored[c].elems) :
          i # j => stored[c].elems[i].id # stored[c].elems[j].id

\* C2: a toggle adds or changes no entry of any completion map except the one
\* keyed by the day the clock shows when the toggle happens.
C2_ToggleCurrentDayOnly ==
    [][\A i \in 1..MaxLen : ToggleComplete(i) =>
          LET old == stored[activeTab].elems
              new == stored'[activeTab].elems
          IN /\ Len(new) = Len(old)
             /\ \A j \in 1..Len(old) :
                   \A k \in (DOMAIN new[j].completed \cup DOMAIN old[j].completed)
                              \ {toDateString(clock)} :
                      /\ k \in DOMAIN old[j].completed
                      /\ k \in DOMAIN new[j].completed
                      /\ new[j].completed[k] = old[j].completed[k]]_vars

\* C3: importing a document that parses leaves every category whose key holds a
\* value that is no sequence as it was, in memory and in the store.
C3_NonSequenceUntouched ==
    [][(ReaderOnload /\ ~parseThrows(reading[1])) =>
          \A c \in Categories :
             parseDocument(reading[1]).fields[c].kind \notin {"undefined", "array"} =>
                stored'[c] = stored[c] /\ persisted'[c] = persisted[c]]_vars

\* the texts the claim names as failing: not JSON, or JSON for null
ImportFails(text) == parseThrows(text) \/ text.top = "null"

\* C4: an import of text that is not a parsable document signals an error, and
\* whenever an import signals an error no category changed, in memory or in the store.
C4_ImportAllOrNothing ==
    [][ReaderOnload =>
          /\ ImportFails(reading[1]) => alert' = "error"
          /\ alert' = "error" => stored' = stored /\ persisted' = persisted]_vars

\* an import failed while a list held items and an entry was stored
C4_Witness ==
    /\ alert = "error"
    /\ \E c \in Categories : stored[c].elems # <<>> /\ persisted[c] # <<>>

\* C5: a successful import replaces exactly the categories whose key holds a
\* sequence, each by that sequence, and leaves every other category as it was.
C5_ExactlySequenceKeys ==
    [][(ReaderOnload /\ alert' = "success") =>
          \A c \in Categories :
             LET v == get(parseDocument(reading[1]), c)
             IN IF IsArray(v) THEN stored'[c] = v ELSE stored'[c] = stored[c]]_vars

\* C6: an export changes no category, and importing the exported file later
\* gives all six categories exactly the lists they had when it was exported.
C6_RoundTrip ==
    [][/\ HandleExport => stored' = stored /\ persisted' = persisted
       /\ (ReaderOnload /\ reading = exported) => stored' = snapshot]_vars

\* the exported file was imported into a state that differed from the exported one
C6_Witness ==
    /\ restored
    /\ alert = "success"
    /\ stored = snapshot
    /\ \E c \in Categories : stored[c].elems # <<>>

\* the i-th checkbox is clicked, and the last list operation was a toggle of the same item
SecondToggle(i) ==
    /\ ToggleComplete(i)
    /\ lastToggle # <<>>
    /\ lastToggle[1].cat = activeTab
    /\ lastToggle[1].id = items[activeTab].elems[i].id

\* C7: two toggles of an item on the same day give the category the list it had
\* before the first one: every completion map equals the map before the two toggles.
C7_ToggleTwiceIdentity ==
    [][\A i \in 1..MaxLen :
          (SecondToggle(i) /\ lastToggle[1].day = toDateString(clock)) =>
             stored'[activeTab].elems = lastToggle[1].before]_vars

\* C8: an Add with a name that is not blank appends exactly one item, named by the
\* trimmed text and with an empty completion map, and changes no earlier item; an
\* Add with an empty or blank name changes neither the lists nor the store.
C8_Add ==
    [][AddItem =>
          LET old == stored[activeTab].elems
              new == stored'[activeTab].elems
          IN IF ~Blank(newItem)
             THEN /\ Len(new) = Len(old) + 1
                  /\ SubSeq(new, 1, Len(old)) = old
                  /\ IsTrimOf(new[Len(new)].name, newItem)
                  /\ new[Len(new)].completed = EmptyMap
             ELSE stored' = stored /\ persisted' = persisted]_vars

\* an item was added behind an item that already had a completion entry
C8_Witness ==
    \E c \in Categories :
       /\ Len(stored[c].elems) = 2
       /\ stored[c].elems[1].completed # EmptyMap
       /\ stored[c].elems[2].name = <<"a">>
       /\ stored[c].elems[2].completed = EmptyMap

\* C9: while no store write has failed, the store entry of every category a step
\* changed holds exactly that category's new in-memory list; a step in which a
\* write fails signals no error and leaves in memory the value the operation computed.
C9_Persistence ==
    [][/\ writeFailures' = 0 =>
            \A c \in Categories :
               (stored'[c] # stored[c] \/ persisted'[c] # persisted[c]) =>
                  MirrorsOf(persisted'[c], stored'[c])
       /\ writeFailures' > writeFailures => StepApplied /\ alert' # "error"]_vars

\* a write failed: the list in memory moved on and the store entry lags behind
C9_Witness ==
    /\ writeFailures > 0
    /\ \E c \in Categories :
          /\ stored[c].elems # <<>>
          /\ ~MirrorsOf(persisted[c], stored[c])

\* C10: every list operation is applied to the list the latest preceding operation
\* or import left, and touches no other category.
C10_NoStaleMutation == [][StepApplied]_vars

\* an item was added to a list that an import had just replaced
C10_Witness ==
    /\ Len(stored["skincare"].elems) = 2
    /\ stored["skincare"].elems[1] = parseItem(ImportedItem)
    /\ stored["skincare"].elems[2].name = <<"a">>

====
